---- MODULE Spec2Model ----
(***************************************************************************)
(* Model of settings.rs of bme680-hal: the OversamplingSetting enum and    *)
(* its from_u8 constructor, the SensorSettings value, the                  *)
(* DesiredSensorSettings bit flags and the SettingsBuilder.                *)
(***************************************************************************)
EXTENDS Integers, Sequences, FiniteSets

VARIABLES
    builder,    \* the SettingsBuilder value: [desired_settings, sensor_settings]
    consumed,   \* TRUE once build(self) has taken ownership of the builder
    settings,   \* Option<Settings>: the pair returned by build()
    calls,      \* history: the setting operations invoked so far, in order
    last,       \* history: per operation, the arguments of its last invocation
    os,         \* the u8 argument of a call of OversamplingSetting::from_u8
    ret,        \* Option<OversamplingSetting>: what that call returned
    panicked,   \* TRUE when that call panicked
    pc          \* "idle" | "call" | "returned": position of the from_u8 caller

vars == <<builder, consumed, settings, calls, last, os, ret, panicked, pc>>

-----------------------------------------------------------------------------
(* Bounds and input domains *)

\* longest sequence of setting operations explored on one builder
MaxOps == 3

\* arguments the setting operations are called with
OsArgs == {"OS1x", "OS4x"}

FilterArgs == {0, 3}

HeatrCtrlArgs == {0, 8}

NbConvArgs == {0, 1}

RunGasArgs == {FALSE, TRUE}

\* Duration in milliseconds
HeatrDurArgs == {100, 150}

HeatrTempArgs == {300, 320}

AmbientArgs == {-5, 25}

-----------------------------------------------------------------------------
(* Option<T> *)

None == <<>>

Some(v) == <<v>>

-----------------------------------------------------------------------------
(* OversamplingSetting *)

OversamplingSetting == {"OSNone", "OS1x", "OS2x", "OS4x", "OS8x", "OS16x"}

\* the #[repr(u8)] discriminant of a level (`level as u8`)
Discriminant(level) ==
    CASE level = "OSNone" -> 0
      [] level = "OS1x"   -> 1
      [] level = "OS2x"   -> 2
      [] level = "OS4x"   -> 3
      [] level = "OS8x"   -> 4
      [] level = "OS16x"  -> 5

U8Max == 255

U8 == 0..U8Max

\* outcome of the match: [panic |-> TRUE] for the panic! arm
from_u8_default(o) ==
    CASE o = 0 -> [panic |-> FALSE, value |-> Some("OSNone")]
      [] o = 1 -> [panic |-> FALSE, value |-> Some("OS1x")]
      [] o = 2 -> [panic |-> FALSE, value |-> Some("OS2x")]
      [] o = 3 -> [panic |-> FALSE, value |-> Some("OS4x")]
      [] o = 4 -> [panic |-> FALSE, value |-> Some("OS8x")]
      [] o = 5 -> [panic |-> FALSE, value |-> Some("OS16x")]
      [] OTHER -> [panic |-> FALSE, value |-> Some("OSNone")]

from_u8(o) ==
    CASE o = 0 -> [panic |-> FALSE, value |-> Some("OSNone")]
      [] o = 1 -> [panic |-> FALSE, value |-> Some("OS1x")]
      [] o = 2 -> [panic |-> FALSE, value |-> Some("OS2x")]
      [] o = 3 -> [panic |-> FALSE, value |-> Some("OS4x")]
      [] o = 4 -> [panic |-> FALSE, value |-> Some("OS8x")]
      [] o = 5 -> [panic |-> FALSE, value |-> Some("OS16x")]
      [] OTHER -> [panic |-> TRUE, value |-> None]

-----------------------------------------------------------------------------
(* SensorSettings and its Default *)

TphSettDefault ==
    [os_hum |-> None, os_temp |-> None, os_pres |-> None, filter |-> None]

GasSettDefault ==
    [nb_conv |-> 0, heatr_ctrl |-> None, run_gas_measurement |-> FALSE,
     heatr_temp |-> None, heatr_dur |-> None, ambient_temperature |-> 0]

SensorSettingsDefault ==
    [gas_sett |-> GasSettDefault, tph_sett |-> TphSettDefault]

-----------------------------------------------------------------------------
(* DesiredSensorSettings: bitflags over u16 *)

Width == 16

OST_SEL == 1

OSP_SEL == 2

OSH_SEL == 4

GAS_MEAS_SEL == 8

FILTER_SEL == 16

HCNTRL_SEL == 32

RUN_GAS_SEL == 64

NBCONV_SEL == 128

Bit(n, i) == (n \div (2 ^ i)) % 2

RECURSIVE BitOrFrom(_, _, _)
BitOrFrom(a, b, i) ==
    IF i = Width THEN 0
    ELSE (IF Bit(a, i) = 1 \/ Bit(b, i) = 1 THEN 2 ^ i ELSE 0)
         + BitOrFrom(a, b, i + 1)

\* a | b
BitOr(a, b) == BitOrFrom(a, b, 0)

RECURSIVE BitAndFrom(_, _, _)
BitAndFrom(a, b, i) ==
    IF i = Width THEN 0
    ELSE (IF Bit(a, i) = 1 /\ Bit(b, i) = 1 THEN 2 ^ i ELSE 0)
         + BitAndFrom(a, b, i + 1)

\* a & b
BitAnd(a, b) == BitAndFrom(a, b, 0)

GAS_SENSOR_SEL_no_nbconv == BitOr(GAS_MEAS_SEL, RUN_GAS_SEL)

GAS_SENSOR_SEL == BitOr(BitOr(GAS_MEAS_SEL, RUN_GAS_SEL), NBCONV_SEL)

\* DesiredSensorSettings::default() / empty()
DesiredDefault == 0

\* self.contains(other)
contains(self, other) == BitAnd(self, other) = other

\* self.intersects(other)
intersects(self, other) == BitAnd(self, other) # 0

-----------------------------------------------------------------------------
(* SettingsBuilder *)

new_nonempty ==
    [desired_settings |-> RUN_GAS_SEL, sensor_settings |-> SensorSettingsDefault]

new ==
    [desired_settings |-> DesiredDefault, sensor_settings |-> SensorSettingsDefault]

with_temperature_filter_assign(self, filter) ==
    [self EXCEPT !.sensor_settings.tph_sett.filter = Some(filter),
                 !.desired_settings = FILTER_SEL]

with_temperature_filter(self, filter) ==
    [self EXCEPT !.sensor_settings.tph_sett.filter = Some(filter),
                 !.desired_settings = BitOr(@, FILTER_SEL)]

with_humidity_control(self, heatr_control) ==
    [self EXCEPT !.sensor_settings.gas_sett.heatr_ctrl = Some(heatr_control),
                 !.desired_settings = BitOr(@, HCNTRL_SEL)]

with_temperature_oversampling(self, os_temp) ==
    [self EXCEPT !.sensor_settings.tph_sett.os_temp = Some(os_temp),
                 !.desired_settings = BitOr(@, OST_SEL)]

with_pressure_oversampling_wrong_field(self, os_pres) ==
    [self EXCEPT !.sensor_settings.tph_sett.os_temp = Some(os_pres),
                 !.desired_settings = BitOr(@, OSP_SEL)]

with_pressure_oversampling(self, os_pres) ==
    [self EXCEPT !.sensor_settings.tph_sett.os_pres = Some(os_pres),
                 !.desired_settings = BitOr(@, OSP_SEL)]

with_humidity_oversampling(self, os_hum) ==
    [self EXCEPT !.sensor_settings.tph_sett.os_hum = Some(os_hum),
                 !.desired_settings = BitOr(@, OSH_SEL)]

with_gas_measurement_gas_meas_sel(self, heatr_dur, heatr_temp, ambient_temperature) ==
    [self EXCEPT !.sensor_settings.gas_sett.heatr_dur = Some(heatr_dur),
                 !.sensor_settings.gas_sett.heatr_temp = Some(heatr_temp),
                 !.sensor_settings.gas_sett.ambient_temperature = ambient_temperature,
                 !.desired_settings = BitOr(@, GAS_MEAS_SEL)]

with_gas_measurement_enables_run(self, heatr_dur, heatr_temp, ambient_temperature) ==
    [self EXCEPT !.sensor_settings.gas_sett.heatr_dur = Some(heatr_dur),
                 !.sensor_settings.gas_sett.heatr_temp = Some(heatr_temp),
                 !.sensor_settings.gas_sett.ambient_temperature = ambient_temperature,
                 !.sensor_settings.gas_sett.run_gas_measurement = TRUE,
                 !.desired_settings = BitOr(@, RUN_GAS_SEL)]

with_gas_measurement(self, heatr_dur, heatr_temp, ambient_temperature) ==
    [self EXCEPT !.sensor_settings.gas_sett.heatr_dur = Some(heatr_dur),
                 !.sensor_settings.gas_sett.heatr_temp = Some(heatr_temp),
                 !.sensor_settings.gas_sett.ambient_temperature = ambient_temperature,
                 !.desired_settings = BitOr(@, RUN_GAS_SEL)]

with_nb_conv(self, nb_conv) ==
    [self EXCEPT !.sensor_settings.gas_sett.nb_conv = nb_conv,
                 !.desired_settings = BitOr(@, NBCONV_SEL)]

with_run_gas_all_gas_bits(self, run_gas) ==
    [self EXCEPT !.sensor_settings.gas_sett.run_gas_measurement = run_gas,
                 !.desired_settings = BitOr(@, GAS_SENSOR_SEL)]

with_run_gas(self, run_gas) ==
    [self EXCEPT !.sensor_settings.gas_sett.run_gas_measurement = run_gas,
                 !.desired_settings = BitOr(@, RUN_GAS_SEL)]

build(self) == <<self.sensor_settings, self.desired_settings>>

\* the eight setting operations of the impl block
Kinds ==
    {"with_temperature_filter", "with_humidity_control",
     "with_temperature_oversampling", "with_pressure_oversampling",
     "with_humidity_oversampling", "with_gas_measurement",
     "with_nb_conv", "with_run_gas"}

\* the call `self.<kind>(args...)`, args given as a tuple
Invoke(self, kind, args) ==
    CASE kind = "with_temperature_filter" -> with_temperature_filter(self, args[1])
      [] kind = "with_humidity_control" -> with_humidity_control(self, args[1])
      [] kind = "with_temperature_oversampling" ->
            with_temperature_oversampling(self, args[1])
      [] kind = "with_pressure_oversampling" ->
            with_pressure_oversampling(self, args[1])
      [] kind = "with_humidity_oversampling" ->
            with_humidity_oversampling(self, args[1])
      [] kind = "with_gas_measurement" ->
            with_gas_measurement(self, args[1], args[2], args[3])
      [] kind = "with_nb_conv" -> with_nb_conv(self, args[1])
      [] kind = "with_run_gas" -> with_run_gas(self, args[1])

\* the argument tuples each operation is called with
ArgsOf(kind) ==
    CASE kind = "with_temperature_filter" -> {<<f>> : f \in FilterArgs}
      [] kind = "with_humidity_control" -> {<<h>> : h \in HeatrCtrlArgs}
      [] kind \in {"with_temperature_oversampling", "with_pressure_oversampling",
                   "with_humidity_oversampling"} -> {<<o>> : o \in OsArgs}
      [] kind = "with_gas_measurement" ->
            HeatrDurArgs \X HeatrTempArgs \X AmbientArgs
      [] kind = "with_nb_conv" -> {<<n>> : n \in NbConvArgs}
      [] kind = "with_run_gas" -> {<<r>> : r \in RunGasArgs}

-----------------------------------------------------------------------------
(* Actions *)

\* a setting operation takes the builder by value and returns it; it can only
\* be called on a builder that build() has not consumed
Call(kind, args) ==
    /\ ~consumed
    /\ Len(calls) < MaxOps
    /\ builder' = Invoke(builder, kind, args)
    /\ calls' = Append(calls, kind)
    /\ last' = [last EXCEPT ![kind] = Some(args)]
    /\ UNCHANGED <<consumed, settings, os, ret, panicked, pc>>

WithTemperatureFilter ==
    \E a \in ArgsOf("with_temperature_filter") : Call("with_temperature_filter", a)

WithHumidityControl ==
    \E a \in ArgsOf("with_humidity_control") : Call("with_humidity_control", a)

WithTemperatureOversampling ==
    \E a \in ArgsOf("with_temperature_oversampling") :
        Call("with_temperature_oversampling", a)

WithPressureOversampling ==
    \E a \in ArgsOf("with_pressure_oversampling") :
        Call("with_pressure_oversampling", a)

WithHumidityOversampling ==
    \E a \in ArgsOf("with_humidity_oversampling") :
        Call("with_humidity_oversampling", a)

WithGasMeasurement ==
    \E a \in ArgsOf("with_gas_measurement") : Call("with_gas_measurement", a)

WithNbConv ==
    \E a \in ArgsOf("with_nb_conv") : Call("with_nb_conv", a)

WithRunGas ==
    \E a \in ArgsOf("with_run_gas") : Call("with_run_gas", a)

Build_keeps_builder ==
    /\ ~consumed
    /\ settings' = Some(build(builder))
    /\ UNCHANGED <<builder, consumed, calls, last, os, ret, panicked, pc>>

\* build(self) moves the builder: no later call on it compiles
Build ==
    /\ ~consumed
    /\ settings' = Some(build(builder))
    /\ consumed' = TRUE
    /\ UNCHANGED <<builder, calls, last, os, ret, panicked, pc>>

\* one call of OversamplingSetting::from_u8(os)
FromU8 ==
    /\ pc = "call"
    /\ ret' = from_u8(os).value
    /\ panicked' = from_u8(os).panic
    /\ pc' = "returned"
    /\ UNCHANGED <<os, builder, consumed, settings, calls, last>>

-----------------------------------------------------------------------------
(* Specifications *)

InitBuilder ==
    /\ builder = new
    /\ consumed = FALSE
    /\ settings = None
    /\ calls = <<>>
    /\ last = [k \in Kinds |-> None]

\* a caller that builds one Settings value with a SettingsBuilder
Init ==
    /\ InitBuilder
    /\ os = 0
    /\ ret = None
    /\ panicked = FALSE
    /\ pc = "idle"

Next ==
    \/ WithTemperatureFilter
    \/ WithHumidityControl
    \/ WithTemperatureOversampling
    \/ WithPressureOversampling
    \/ WithHumidityOversampling
    \/ WithGasMeasurement
    \/ WithNbConv
    \/ WithRunGas
    \/ Build

Spec == Init /\ [][Next]_vars

\* a caller that converts one u8 with OversamplingSetting::from_u8
InitFromU8 ==
    /\ InitBuilder
    /\ os \in U8
    /\ ret = None
    /\ panicked = FALSE
    /\ pc = "call"

NextFromU8 == FromU8

SpecFromU8 == InitFromU8 /\ [][NextFromU8]_vars

-----------------------------------------------------------------------------
(* Vocabulary of the properties *)

\* the operations invoked so far on the builder
Invoked == {calls[i] : i \in 1..Len(calls)}

\* the pair build() returned
BuiltSettings == settings[1][1]

BuiltMask == settings[1][2]

NamedFlags ==
    {OST_SEL, OSP_SEL, OSH_SEL, GAS_MEAS_SEL, FILTER_SEL, HCNTRL_SEL,
     RUN_GAS_SEL, NBCONV_SEL}

\* the operations table: the flag listed for each operation
TableFlag(kind) ==
    CASE kind = "with_temperature_filter" -> FILTER_SEL
      [] kind = "with_humidity_control" -> HCNTRL_SEL
      [] kind = "with_temperature_oversampling" -> OST_SEL
      [] kind = "with_pressure_oversampling" -> OSP_SEL
      [] kind = "with_humidity_oversampling" -> OSH_SEL
      [] kind = "with_gas_measurement" -> RUN_GAS_SEL
      [] kind = "with_nb_conv" -> NBCONV_SEL
      [] kind = "with_run_gas" -> RUN_GAS_SEL

\* the ten fields of a SensorSettings, by name
Flat(ss) ==
    [os_hum |-> ss.tph_sett.os_hum,
     os_temp |-> ss.tph_sett.os_temp,
     os_pres |-> ss.tph_sett.os_pres,
     filter |-> ss.tph_sett.filter,
     nb_conv |-> ss.gas_sett.nb_conv,
     heatr_ctrl |-> ss.gas_sett.heatr_ctrl,
     run_gas_measurement |-> ss.gas_sett.run_gas_measurement,
     heatr_temp |-> ss.gas_sett.heatr_temp,
     heatr_dur |-> ss.gas_sett.heatr_dur,
     ambient_temperature |-> ss.gas_sett.ambient_temperature]

FieldNames == DOMAIN Flat(SensorSettingsDefault)

\* the operations table: the values an operation called with `args` writes,
\* as a function from the fields it writes
TableWrites(kind, args) ==
    CASE kind = "with_temperature_filter" -> [f \in {"filter"} |-> Some(args[1])]
      [] kind = "with_humidity_control" -> [f \in {"heatr_ctrl"} |-> Some(args[1])]
      [] kind = "with_temperature_oversampling" ->
            [f \in {"os_temp"} |-> Some(args[1])]
      [] kind = "with_pressure_oversampling" ->
            [f \in {"os_pres"} |-> Some(args[1])]
      [] kind = "with_humidity_oversampling" ->
            [f \in {"os_hum"} |-> Some(args[1])]
      [] kind = "with_gas_measurement" ->
            [f \in {"heatr_dur", "heatr_temp", "ambient_temperature"} |->
                CASE f = "heatr_dur" -> Some(args[1])
                  [] f = "heatr_temp" -> Some(args[2])
                  [] f = "ambient_temperature" -> args[3]]
      [] kind = "with_nb_conv" -> [f \in {"nb_conv"} |-> args[1]]
      [] kind = "with_run_gas" -> [f \in {"run_gas_measurement"} |-> args[1]]

\* this step is a setting operation
IsCall == calls' # calls

CalledKind == calls'[Len(calls')]

CalledArgs == last'[CalledKind][1]

-----------------------------------------------------------------------------
(* C1 *)

\* C1: the mask returned by build() has a named flag set if and only if an
\* operation whose table entry lists that flag was invoked on the builder.
C1_MaskIffInvoked ==
    consumed =>
        \A B \in NamedFlags :
            contains(BuiltMask, B) <=> (\E k \in Invoked : TableFlag(k) = B)

C1_Witness ==
    /\ consumed
    /\ calls = <<"with_nb_conv", "with_gas_measurement", "with_temperature_filter">>
    /\ BuiltMask = NBCONV_SEL + RUN_GAS_SEL + FILTER_SEL

-----------------------------------------------------------------------------
(* C2 *)

\* C2: once with_run_gas, with_nb_conv and with_gas_measurement have each been
\* invoked, the built mask contains GAS_SENSOR_SEL; the mask built after
\* with_run_gas alone intersects GAS_SENSOR_SEL without containing it.
C2_GasSensorSelContained ==
    consumed =>
        /\ {"with_run_gas", "with_nb_conv", "with_gas_measurement"} \subseteq Invoked
              => contains(BuiltMask, GAS_SENSOR_SEL)
        /\ calls = <<"with_run_gas">>
              => /\ intersects(BuiltMask, GAS_SENSOR_SEL)
                 /\ ~contains(BuiltMask, GAS_SENSOR_SEL)

-----------------------------------------------------------------------------
(* C3 *)

C3_Step ==
    IsCall =>
        LET writes == TableWrites(CalledKind, CalledArgs)
            before == Flat(builder.sensor_settings)
            after  == Flat(builder'.sensor_settings)
        IN  /\ \A f \in FieldNames :
                  after[f] = IF f \in DOMAIN writes THEN writes[f] ELSE before[f]
            /\ builder'.desired_settings =
                  BitOr(builder.desired_settings, TableFlag(CalledKind))
            /\ \A B \in NamedFlags \ {TableFlag(CalledKind)} :
                  contains(builder'.desired_settings, B)
                     <=> contains(builder.desired_settings, B)

C3_Concrete ==
    /\ (calls = <<"with_temperature_oversampling">>
          /\ last["with_temperature_oversampling"] = Some(<<"OS4x">>))
       => /\ builder.sensor_settings.tph_sett.os_temp = Some("OS4x")
          /\ builder.desired_settings = OST_SEL
    /\ (calls = <<"with_gas_measurement">>
          /\ last["with_gas_measurement"] = Some(<<150, 300, 25>>))
       => /\ builder.sensor_settings.gas_sett.heatr_dur = Some(150)
          /\ builder.sensor_settings.gas_sett.heatr_temp = Some(300)
          /\ builder.sensor_settings.gas_sett.ambient_temperature = 25
          /\ builder.desired_settings = RUN_GAS_SEL

\* C3: every setting operation writes exactly the fields the table lists for
\* it, with the supplied values, unions exactly its listed flag into the mask
\* and leaves every other field and flag unchanged; on a fresh builder
\* with_temperature_oversampling(OS4x) gives os_temp = Some(OS4x) and mask
\* OST_SEL, with_gas_measurement(150ms, 300, 25) gives those three values and
\* mask RUN_GAS_SEL.
C3_Frame == [](C3_Concrete) /\ [][C3_Step]_vars

C3_Witness ==
    /\ Len(calls) = 3
    /\ calls[3] = "with_gas_measurement"
    /\ last["with_gas_measurement"] = Some(<<150, 300, 25>>)
    /\ builder.sensor_settings.tph_sett.os_temp = Some("OS4x")
    /\ builder.sensor_settings.gas_sett.heatr_dur = Some(150)
    /\ builder.desired_settings = OST_SEL + RUN_GAS_SEL + NBCONV_SEL

-----------------------------------------------------------------------------
(* C4 *)

\* C4: with_run_gas then with_gas_measurement, or the reverse, then build(),
\* gives a mask of exactly RUN_GAS_SEL (64), the two operations having written
\* different fields.
C4_SharedRunGasBit ==
    (/\ consumed
     /\ \/ calls = <<"with_run_gas", "with_gas_measurement">>
        \/ calls = <<"with_gas_measurement", "with_run_gas">>)
    => /\ BuiltMask = RUN_GAS_SEL
       /\ BuiltMask = 64
       /\ \A B \in NamedFlags \ {RUN_GAS_SEL} : ~contains(BuiltMask, B)
       /\ BuiltSettings.gas_sett.run_gas_measurement = last["with_run_gas"][1][1]
       /\ BuiltSettings.gas_sett.heatr_dur = Some(last["with_gas_measurement"][1][1])
       /\ BuiltSettings.gas_sett.heatr_temp = Some(last["with_gas_measurement"][1][2])
       /\ BuiltSettings.gas_sett.ambient_temperature = last["with_gas_measurement"][1][3]
       /\ DOMAIN TableWrites("with_run_gas", <<TRUE>>)
             \cap DOMAIN TableWrites("with_gas_measurement", <<150, 300, 25>>) = {}

C4_Witness ==
    /\ consumed
    /\ calls = <<"with_gas_measurement", "with_run_gas">>
    /\ BuiltMask = 64
    /\ BuiltSettings.gas_sett.run_gas_measurement = TRUE
    /\ BuiltSettings.gas_sett.heatr_temp = Some(300)

-----------------------------------------------------------------------------
(* C5 *)

\* C5: build() on a fresh builder returns the empty mask and the default
\* SensorSettings.
C5_FreshBuild ==
    (consumed /\ calls = <<>>) =>
        /\ BuiltMask = 0
        /\ Flat(BuiltSettings) =
              [os_hum |-> None, os_temp |-> None, os_pres |-> None,
               filter |-> None, nb_conv |-> 0, heatr_ctrl |-> None,
               run_gas_measurement |-> FALSE, heatr_temp |-> None,
               heatr_dur |-> None, ambient_temperature |-> 0]

C5_Witness == consumed /\ calls = <<>> /\ settings # None

-----------------------------------------------------------------------------
(* C6 *)

\* the six levels in the order None, 1x, 2x, 4x, 8x, 16x
LevelOrder == <<"OSNone", "OS1x", "OS2x", "OS4x", "OS8x", "OS16x">>

\* C6: from_u8 maps 0..5 one-to-one onto OSNone, OS1x, OS2x, OS4x, OS8x, OS16x
\* in that order (the level returned for d has discriminant d), and panics,
\* returning no level, for every input above 5.
C6_FromU8 ==
    pc = "returned" =>
        IF os <= 5
        THEN /\ ~panicked
             /\ ret = Some(LevelOrder[os + 1])
             /\ ret[1] \in OversamplingSetting
             /\ Discriminant(ret[1]) = os
        ELSE /\ panicked
             /\ ret = None

C6_Witness == pc = "returned" /\ os = 6 /\ panicked /\ ret = None

-----------------------------------------------------------------------------
(* C7 *)

FlagOrder ==
    <<OST_SEL, OSP_SEL, OSH_SEL, GAS_MEAS_SEL, FILTER_SEL, HCNTRL_SEL,
      RUN_GAS_SEL, NBCONV_SEL>>

RECURSIVE SumOfContained(_, _)
SumOfContained(mask, i) ==
    IF i > Len(FlagOrder) THEN 0
    ELSE (IF contains(mask, FlagOrder[i]) THEN 2 ^ (i - 1) ELSE 0)
         + SumOfContained(mask, i + 1)

\* the layout of the flag constants
FlagConstantsLayout ==
    /\ FlagOrder = <<1, 2, 4, 8, 16, 32, 64, 128>>
    /\ \A i, j \in 1..Len(FlagOrder) :
          i # j => BitAnd(FlagOrder[i], FlagOrder[j]) = 0
    /\ \A i \in 1..Len(FlagOrder) :
          Cardinality({b \in 0..(Width - 1) : Bit(FlagOrder[i], b) = 1}) = 1
    /\ GAS_SENSOR_SEL = 200
    /\ GAS_SENSOR_SEL = GAS_MEAS_SEL + RUN_GAS_SEL + NBCONV_SEL
    /\ \A b \in 0..(Width - 1) :
          Bit(GAS_SENSOR_SEL, b) = 1
             <=> \E F \in {GAS_MEAS_SEL, RUN_GAS_SEL, NBCONV_SEL} : Bit(F, b) = 1

\* C7: the eight flags are 1, 2, 4, 8, 16, 32, 64, 128 in the listed order,
\* pairwise disjoint single bits; GAS_SENSOR_SEL is the union
\* GAS_MEAS_SEL | RUN_GAS_SEL | NBCONV_SEL (200) and has no bit of its own; a
\* builder's mask is the sum of the values of the flags it contains.
C7_FlagLayout ==
    /\ FlagConstantsLayout
    /\ builder.desired_settings = SumOfContained(builder.desired_settings, 1)

C7_Witness ==
    /\ consumed
    /\ BuiltMask = 192
    /\ BitAnd(BuiltMask, GAS_SENSOR_SEL) = RUN_GAS_SEL + NBCONV_SEL
    /\ BitAnd(BuiltMask, GAS_SENSOR_SEL) # GAS_SENSOR_SEL

-----------------------------------------------------------------------------
(* C8 *)

C8_Step ==
    /\ contains(builder'.desired_settings, builder.desired_settings)
    /\ IsCall =>
          LET writes == TableWrites(CalledKind, CalledArgs)
          IN  /\ CalledKind \in Invoked
                    => builder'.desired_settings = builder.desired_settings
              /\ \A f \in DOMAIN writes :
                    Flat(builder'.sensor_settings)[f] = writes[f]

\* C8: invoking an operation again leaves the mask as it was after its first
\* invocation and its fields holding the latest values; no step clears a mask
\* bit.
C8_RepeatKeepsMask == [][C8_Step]_vars

C8_Witness ==
    /\ calls = <<"with_temperature_filter", "with_nb_conv", "with_temperature_filter">>
    /\ last["with_temperature_filter"] = Some(<<3>>)
    /\ builder.sensor_settings.tph_sett.filter = Some(3)
    /\ builder.desired_settings = FILTER_SEL + NBCONV_SEL

-----------------------------------------------------------------------------
(* C9 *)

\* one fixed order of the eight operations
KindOrder ==
    <<"with_temperature_filter", "with_humidity_control",
      "with_temperature_oversampling", "with_pressure_oversampling",
      "with_humidity_oversampling", "with_gas_measurement",
      "with_nb_conv", "with_run_gas">>

\* the builder obtained by invoking, in the fixed order, each operation that
\* was invoked at all, once, with the arguments of its last invocation
RECURSIVE Canonical(_, _, _)
Canonical(self, l, i) ==
    IF i > Len(KindOrder) THEN self
    ELSE Canonical(IF l[KindOrder[i]] = None THEN self
                   ELSE Invoke(self, KindOrder[i], l[KindOrder[i]][1]),
                   l, i + 1)

\* C9: from any builder state two different operations give the same built
\* pair in either order, and the built pair depends only on which operations
\* were invoked and on the arguments of the last invocation of each.
C9_OrderIndependent ==
    /\ (~consumed /\ Len(calls) + 2 <= MaxOps) =>
          \A k1, k2 \in Kinds :
              k1 # k2 =>
                  \A a1 \in ArgsOf(k1), a2 \in ArgsOf(k2) :
                      build(Invoke(Invoke(builder, k1, a1), k2, a2))
                         = build(Invoke(Invoke(builder, k2, a2), k1, a1))
    /\ consumed => settings = Some(build(Canonical(new, last, 1)))

C9_Witness ==
    /\ consumed
    /\ calls = <<"with_run_gas", "with_gas_measurement", "with_humidity_control">>
    /\ last["with_run_gas"] = Some(<<TRUE>>)
    /\ BuiltSettings.gas_sett.run_gas_measurement = TRUE
    /\ BuiltSettings.gas_sett.heatr_ctrl = Some(8)
    /\ BuiltMask = RUN_GAS_SEL + HCNTRL_SEL

-----------------------------------------------------------------------------
(* C10 *)

C10_Step ==
    /\ settings' # settings =>
          /\ ~consumed
          /\ settings = None
          /\ settings' = Some(<<builder.sensor_settings, builder.desired_settings>>)
          /\ builder' = builder
          /\ consumed'
    /\ consumed => UNCHANGED <<builder, consumed, settings, calls, last>>

\* C10: a builder is under construction or finalized; build() is taken at
\* most once, returns the accumulated SensorSettings and mask unaltered, and
\* after it no setting operation and no second build() applies, so the
\* returned pair never changes.
C10_BuildOnce ==
    /\ [](consumed <=> settings # None)
    /\ [][C10_Step]_vars

C10_Witness ==
    /\ consumed
    /\ Len(calls) = 3
    /\ settings = Some(build(builder))
    /\ BuiltMask = OSH_SEL + OSP_SEL + HCNTRL_SEL

====
